---- MODULE Spec2Model ----
(***************************************************************************)
(* Model of src/handler.js: the pull-request preview bot.  One invocation  *)
(* of the script handles one event: it validates the payload, filters the  *)
(* repository, routes on the action and runs either the preview generation *)
(* flow or the cleanup flow against the local disk and the remote preview  *)
(* repository.                                                             *)
(*                                                                         *)
(* Paths are sequences of path components; an absolute path starts with    *)
(* the component "/".  Files are records [path, data].                     *)
(***************************************************************************)
EXTENDS Integers, Sequences, FiniteSets, TLC

VARIABLES
  proc,    \* proc[i]: the state of invocation i (one process per event)
  disk,    \* the local filesystem: [files: set of [path, data], dirs: set of paths]
  remote,  \* the preview repository's branch main: [tree, commits]
  clock    \* the last value Date.now() returned

vars == <<proc, disk, remote, clock>>

-----------------------------------------------------------------------------
(* Bounds of the model: the number of invocations, and the largest value *)
(* Date.now() returns (the clock starts at 0).                          *)

NumInvocations == 2
MaxClock == 1

Procs == 1..NumInvocations

-----------------------------------------------------------------------------
(* path: join, resolve, relative, dirname (src/handler.js:3) *)

Root == <<"/">>

IsAbsolute(p) == Len(p) > 0 /\ p[1] = "/"

RECURSIVE NormalizeFrom(_, _)
\* Fold the components of `rest` onto `acc`: "." is dropped, ".." removes the
\* last component (it stays when there is none to remove in a relative path,
\* and is dropped at the root).
NormalizeFrom(acc, rest) ==
  IF rest = <<>> THEN acc
  ELSE LET c == Head(rest)
           r == Tail(rest)
       IN IF c = "." \/ (c = "/" /\ acc # <<>>) THEN NormalizeFrom(acc, r)
          ELSE IF c = ".."
               THEN IF acc = Root THEN NormalizeFrom(acc, r)
                    ELSE IF acc = <<>> \/ acc[Len(acc)] = ".."
                         THEN NormalizeFrom(Append(acc, c), r)
                         ELSE NormalizeFrom(SubSeq(acc, 1, Len(acc) - 1), r)
               ELSE NormalizeFrom(Append(acc, c), r)

Normalize(p) == NormalizeFrom(<<>>, p)

\* path.join(a, b)
Join(a, b) == Normalize(a \o b)

\* path.resolve(p) in a process whose current directory is cwd
Resolve(cwd, p) == IF IsAbsolute(p) THEN Normalize(p) ELSE Normalize(cwd \o p)

\* path.dirname(p)
Dirname(p) == IF Len(p) <= 1 THEN p ELSE SubSeq(p, 1, Len(p) - 1)

IsPrefix(d, p) == Len(d) <= Len(p) /\ SubSeq(p, 1, Len(d)) = d

\* p lies strictly inside directory d
IsUnder(d, p) == IsPrefix(d, p) /\ Len(p) > Len(d)

RECURSIVE CommonLen(_, _)
CommonLen(a, b) ==
  IF a = <<>> \/ b = <<>> \/ Head(a) # Head(b) THEN 0
  ELSE 1 + CommonLen(Tail(a), Tail(b))

\* path.relative(from, to): both are resolved against the current directory,
\* the common prefix is dropped, and each remaining component of `from`
\* becomes "..".
Relative(cwd, from, to) ==
  LET f == Resolve(cwd, from)
      t == Resolve(cwd, to)
      n == CommonLen(f, t)
  IN [k \in 1..(Len(f) - n) |-> ".."] \o SubSeq(t, n + 1, Len(t))

-----------------------------------------------------------------------------
(* fs: existsSync, mkdirSync, copyFileSync, readdirSync; rm -rf *)

File(p, d) == [path |-> p, data |-> d]

Ancestors(p) == {SubSeq(p, 1, k) : k \in 1..(Len(p) - 1)}

EmptyDisk == [files |-> {}, dirs |-> {Root, <<"/", "tmp">>}]

IsFile(dk, a) == \E f \in dk.files : f.path = a

IsDirectory(dk, a) == a \in dk.dirs

\* fs.existsSync(p)
ExistsSync(dk, cwd, p) ==
  LET a == Resolve(cwd, p) IN IsFile(dk, a) \/ IsDirectory(dk, a)

\* fs.mkdirSync(p, { recursive: true })
MkdirRecursive(dk, cwd, p) ==
  LET a == Resolve(cwd, p) IN [dk EXCEPT !.dirs = @ \cup {a} \cup Ancestors(a)]

\* fs.copyFileSync(src, dst) succeeds when src is a file and the directory
\* of dst exists; otherwise it throws (ENOENT).
CanCopy(dk, cwd, src, dst) ==
  /\ IsFile(dk, Resolve(cwd, src))
  /\ IsDirectory(dk, Dirname(Resolve(cwd, dst)))

CopyFileSync(dk, cwd, src, dst) ==
  LET s == Resolve(cwd, src)
      t == Resolve(cwd, dst)
      d == (CHOOSE f \in dk.files : f.path = s).data
  IN [dk EXCEPT !.files = {f \in @ : f.path # t} \cup {File(t, d)}]

\* rm -rf a
RmRf(dk, a) ==
  [files |-> {f \in dk.files : ~IsPrefix(a, f.path)},
   dirs  |-> {d \in dk.dirs : ~IsPrefix(a, d)}]

\* The files of `tree` (relative paths) written under directory `root`.
Populate(dk, root, tree) ==
  LET placed == {File(root \o f.path, f.data) : f \in tree}
  IN [files |-> {f \in dk.files : \A g \in placed : g.path # f.path}
                  \cup placed,
      dirs  |-> dk.dirs \cup {root} \cup Ancestors(root)
                \cup UNION {Ancestors(f.path) : f \in placed}]

\* The files under directory `root`, with paths relative to it.
TreeAt(dk, root) ==
  {File(SubSeq(f.path, Len(root) + 1, Len(f.path)), f.data) :
     f \in {g \in dk.files : IsUnder(root, g.path)}}

\* The order in which readdirSync lists names (alphabetical).
NameOrder ==
  <<"42", "7", "a.html", "api", "b.html", "build-docs.sh", "c.html", "dist",
    "docs", "docs-site", "generate.sh", "html", "index.html", "output",
    "readme.txt", "sub">>

Extension(name) ==
  IF name \in {"a.html", "b.html", "c.html", "index.html"} THEN ".html"
  ELSE IF name \in {"build-docs.sh", "generate.sh"} THEN ".sh"
  ELSE IF name = "readme.txt" THEN ".txt"
  ELSE ""

\* fs.readdirSync(a): the names of the entries directly inside directory a
ReadDir(dk, a) ==
  LET inside == {f.path : f \in {g \in dk.files : IsUnder(a, g.path)}}
                \cup {d \in dk.dirs : IsUnder(a, d)}
      names == {p[Len(a) + 1] : p \in inside}
  IN SelectSeq(NameOrder, LAMBDA n : n \in names)

RECURSIVE findHtmlFiles(_, _, _)
RECURSIVE WalkItems(_, _, _, _)

\* The loop of findHtmlFiles over the items of `dir`
WalkItems(dk, cwd, dir, items) ==
  IF items = <<>> THEN <<>>
  ELSE LET name == Head(items)
           fullPath == Join(dir, <<name>>)
           a == Resolve(cwd, fullPath)
           found == IF IsDirectory(dk, a) THEN findHtmlFiles(dk, cwd, fullPath)
                    ELSE IF IsFile(dk, a) /\ Extension(name) = ".html"
                         THEN <<fullPath>>
                         ELSE <<>>
       IN found \o WalkItems(dk, cwd, dir, Tail(items))

\* findHtmlFiles(dir): the .html files under dir, as paths that start with dir
findHtmlFiles(dk, cwd, dir) ==
  WalkItems(dk, cwd, dir, ReadDir(dk, Resolve(cwd, dir)))

-----------------------------------------------------------------------------
(* config.json and the event payload (src/handler.js:6-18) *)

Undefined == "undefined"

monitoredRepositories == {"docs-site"}

Actions == {"opened", "synchronize", "closed", "merged", "edited"}
RepoNames == {"docs-site", "random-repo"}
PRNumbers == {42, 7}
Shas == {"abc1234"}

NoRepository == [present |-> FALSE, name |-> Undefined, hasOwner |-> FALSE]
NoPullRequest ==
  [present |-> FALSE, number |-> 0, hasHead |-> FALSE, sha |-> Undefined]

Repositories == [present : {TRUE}, name : RepoNames, hasOwner : BOOLEAN]
PullRequests ==
  [present : {TRUE}, number : PRNumbers, hasHead : BOOLEAN, sha : Shas]

\* The payloads JSON.parse can return: each of action, repository and
\* pull_request may be absent; an action may be the empty string; a
\* repository may lack owner and a pull_request may lack head.
Events ==
  [action : Actions \cup {Undefined, ""},
   repository : Repositories \cup {NoRepository},
   pull_request : PullRequests \cup {NoPullRequest}]

NoEvent ==
  [action |-> Undefined, repository |-> NoRepository,
   pull_request |-> NoPullRequest]

-----------------------------------------------------------------------------
(* The source repository at the event's commit, and what a build writes *)

CommittedPaths ==
  {<<"build-docs.sh">>, <<"generate.sh">>, <<"index.html">>,
   <<"docs", "html", "c.html">>}

BuildOutputPaths ==
  {<<"dist", "readme.txt">>, <<"dist", "index.html">>,
   <<"output", "a.html">>, <<"output", "sub", "b.html">>}

\* The files of a tree whose content comes from commit `sha`
TreeOf(paths, sha) == {File(q, sha) : q \in paths}

\* The preview repository's branch main before the invocations: any subset
\* of these files.
PublishedFiles ==
  {File(<<"index.html">>, "site"),
   File(<<"docs-site", "42", "index.html">>, "abc1234")}

-----------------------------------------------------------------------------
(* git, as the flows use it *)

\* git add that ignores its pathspec and stages the whole working tree
GitAdd_Mut(index, worktree, pathspec) == worktree

\* git add <pathspec>: the index takes the working tree's state of every
\* path under pathspec (additions, changes and deletions).
GitAdd(index, worktree, pathspec) ==
  {f \in index : ~IsUnder(pathspec, f.path)}
    \cup {f \in worktree : IsUnder(pathspec, f.path)}

\* git add -A
GitAddAll(index, worktree) == worktree

\* git commit fails (exit status 1) when the index equals HEAD; it then
\* prints "nothing to commit" on its standard output.
NothingToCommit(index, head) == index = head

\* A remote that accepts every push (as a forced push would be)
IsFastForward_Mut(rem, base) == TRUE

\* git push origin main is a fast-forward when main still is the commit the
\* clone was taken from.
IsFastForward(rem, base) == rem.commits = base

\* The message of the Error execSync throws for a command that exits with a
\* non-zero status: "Command failed: <command>", followed by the command's
\* standard error when execSync captured it (stdio "pipe").  Every call of
\* the script passes { stdio: 'inherit' }, so nothing is captured.
ExecSyncErrorMessage(cmd, stdio, stderr) ==
  <<"Command failed: ", cmd>>
    \o (IF stdio = "pipe" /\ stderr # "" THEN <<stderr>> ELSE <<>>)

\* e.message.includes(text), on a message made of text fragments
MessageIncludes(msg, text) == \E k \in 1..Len(msg) : msg[k] = text

\* A catch clause that swallows every error of commit and push
IsBenignCommitError_Mut(cmd, stderr) == TRUE

\* The catch clause around commit and push: TRUE when the error is
\* swallowed ('nothing to commit'), FALSE when it is thrown again.
IsBenignCommitError(cmd, stderr) ==
  MessageIncludes(ExecSyncErrorMessage(cmd, "inherit", stderr),
                  "nothing to commit")

-----------------------------------------------------------------------------
(* One invocation of handler.js *)

StartDir == <<"/", "app">>

NoPath == <<>>

\* The state of an invocation that has not been started.
\*   ops      the external effects attempted so far (history)
\*   located  the artifact search has run (history)
\*   cloned   the tree of the preview repository as it was cloned, once
\*            haveClone (history)
\*   extFail  an external command failed for a reason outside the script:
\*            unreachable remote, failing build tool, rejected push (history)
\*   tried    the build candidates executed so far, in order (history)
\*   gitError the command of the commit-and-push try block that failed:
\*            "none", "nothing to commit", "commit" or "push" (history)
IdleProc ==
  [pc |-> "idle", event |-> NoEvent, exitCode |-> -1, flow |-> "none",
   ops |-> {}, extFail |-> FALSE, cwd |-> StartDir,
   repoName |-> Undefined, prNumber |-> 0, commitSha |-> Undefined,
   previewPath |-> NoPath, tempDir |-> NoPath, previewDir |-> NoPath,
   buildIdx |-> 0, buildExecuted |-> FALSE, tried |-> <<>>,
   gitError |-> "none",
   located |-> FALSE, htmlFiles |-> <<>>, copyIdx |-> 0, copied |-> {},
   haveClone |-> FALSE, cloned |-> {}, base |-> 0, head |-> {}, index |-> {}, commits |-> 0, pushes |-> 0]

Init ==
  /\ proc = [i \in Procs |-> IdleProc]
  /\ disk = EmptyDisk
  /\ \E t \in SUBSET PublishedFiles : remote = [tree |-> t, commits |-> 0]
  /\ clock = 0

\* process.exit(code), or the end of the script (code 0)
Exit(p, code) == [p EXCEPT !.pc = "exited", !.exitCode = code]

\* The catch clause of a flow: console.error, process.exit(1)
Fail(p, external) ==
  [p EXCEPT !.pc = "exited", !.exitCode = 1, !.extFail = @ \/ external]

Did(p, op) == [p EXCEPT !.ops = @ \cup {op}]

\* Invocation i is started with an event payload (lines 9-18).
Start(i) ==
  /\ proc[i].pc = "idle"
  /\ \A j \in Procs : j < i => proc[j].pc = "exited"
  /\ \E ev \in Events :
       proc' = [proc EXCEPT ![i] = [@ EXCEPT !.pc = "validate", !.event = ev]]
  /\ UNCHANGED <<disk, remote, clock>>

\* !v for the values a payload field can take
Falsy(v) == v \in {Undefined, ""}

\* MissingRequired without the test of pull_request
MissingRequired_Mut(ev) == Falsy(ev.action) \/ ~ev.repository.present

\* if (!action || !repository || !pull_request)  (line 21)
MissingRequired(ev) ==
  Falsy(ev.action) \/ ~ev.repository.present \/ ~ev.pull_request.present

\* Validate required fields (lines 20-24)
Validate(i) ==
  /\ proc[i].pc = "validate"
  /\ proc' = [proc EXCEPT ![i] =
       IF MissingRequired(@.event) THEN Exit(@, 1)
       ELSE [@ EXCEPT !.pc = "extract"]]
  /\ UNCHANGED <<disk, remote, clock>>

\* pull_request.head.sha and repository.owner.login throw a TypeError when
\* head or owner is absent (lines 28, 30).
ExtractThrows(ev) == ~ev.pull_request.hasHead \/ ~ev.repository.hasOwner

\* previewPath = `${repoName}/${prNumber}`  (line 33)
PreviewPathOf(name, number) == <<name, ToString(number)>>

\* The constants read from the payload (lines 26-33); an uncaught TypeError
\* ends the process with exit code 1.
Extract(i) ==
  /\ proc[i].pc = "extract"
  /\ LET p == proc[i]
         ev == p.event
     IN proc' = [proc EXCEPT ![i] =
          IF ExtractThrows(ev) THEN Exit(p, 1)
          ELSE [p EXCEPT !.pc = "filter",
                         !.repoName = ev.repository.name,
                         !.prNumber = ev.pull_request.number,
                         !.commitSha = ev.pull_request.sha,
                         !.previewPath =
                            PreviewPathOf(ev.repository.name,
                                          ev.pull_request.number)]]
  /\ UNCHANGED <<disk, remote, clock>>

\* IsMonitored without the list: every repository passes the filter
IsMonitored_Mut(name) == TRUE

\* config.monitoredRepositories.includes(repoName)  (line 36)
IsMonitored(name) == name \in monitoredRepositories

\* Check if repository is monitored (lines 35-39)
Filter(i) ==
  /\ proc[i].pc = "filter"
  /\ proc' = [proc EXCEPT ![i] =
       IF ~IsMonitored(@.repoName) THEN Exit(@, 0)
       ELSE [@ EXCEPT !.pc = "route"]]
  /\ UNCHANGED <<disk, remote, clock>>

\* RouteOf with 'merged' left out of the cleanup branch
RouteOf_Mut(action) ==
  IF action = "opened" \/ action = "synchronize" THEN "generation"
  ELSE IF action = "closed" THEN "cleanup"
  ELSE "none"

\* The flow an action is routed to (lines 44-51)
RouteOf(action) ==
  IF action = "opened" \/ action = "synchronize" THEN "generation"
  ELSE IF action = "closed" \/ action = "merged" THEN "cleanup"
  ELSE "none"

\* Route by action (lines 43-51)
Route(i) ==
  /\ proc[i].pc = "route"
  /\ proc' = [proc EXCEPT ![i] =
       LET r == RouteOf(@.event.action)
       IN IF r = "generation" THEN [@ EXCEPT !.pc = "gen_clone", !.flow = r]
          ELSE IF r = "cleanup" THEN [@ EXCEPT !.pc = "cl_clone", !.flow = r]
          ELSE Exit(@, 0)]
  /\ UNCHANGED <<disk, remote, clock>>

-----------------------------------------------------------------------------
(* handlePreviewGeneration (lines 53-172) *)

\* path.join('/tmp', `${prefix}${Date.now()}`)  (lines 55, 56, 176)
ScratchDir(prefix, now) == <<"/", "tmp", prefix \o ToString(now)>>

\* git clone <url> <dir> needs dir to be absent or an empty directory.
CanCloneInto(dk, dir) ==
  /\ ~IsFile(dk, dir)
  /\ \A f \in dk.files : ~IsUnder(dir, f.path)
  /\ \A d \in dk.dirs : ~IsUnder(dir, d)

\* What git clone <url> <dir> leaves: the working tree under dir, and the
\* repository data in dir/.git.
CloneInto(dk, dir, tree) ==
  [Populate(dk, dir, tree) EXCEPT !.dirs = @ \cup {dir \o <<".git">>}]

\* Step 1: the scratch names and git clone of the source (lines 55-60).
\* Date.now() is read twice; the clock does not go back.
GenClone(i) ==
  /\ proc[i].pc = "gen_clone"
  /\ \E t1 \in clock..MaxClock : \E t2 \in t1..MaxClock : \E ok \in BOOLEAN :
       LET tempDir == ScratchDir("preview-", t1)
           previewDir == ScratchDir("preview-repo-", t2)
           p == [Did(proc[i], "clone") EXCEPT !.tempDir = tempDir,
                                              !.previewDir = previewDir]
       IN /\ clock' = t2
          /\ IF ok /\ CanCloneInto(disk, tempDir)
             THEN /\ disk' = CloneInto(disk, tempDir, {})
                  /\ proc' = [proc EXCEPT ![i] = [p EXCEPT !.pc = "gen_checkout"]]
             ELSE /\ disk' = disk
                  /\ proc' = [proc EXCEPT ![i] = Fail(p, TRUE)]
  /\ UNCHANGED remote

\* process.chdir(tempDir); git checkout <sha> (lines 61-62).  The working
\* tree then holds the files committed at sha.
GenCheckout(i) ==
  /\ proc[i].pc = "gen_checkout"
  /\ LET p == [Did(proc[i], "checkout") EXCEPT !.cwd = proc[i].tempDir]
     IN \/ \E paths \in SUBSET CommittedPaths :
             /\ disk' = Populate(disk, p.tempDir, TreeOf(paths, p.commitSha))
             /\ proc' = [proc EXCEPT ![i] =
                           [p EXCEPT !.pc = "build", !.buildIdx = 1]]
        \/ /\ disk' = disk
           /\ proc' = [proc EXCEPT ![i] = Fail(p, TRUE)]
  /\ UNCHANGED <<remote, clock>>

\* Step 2 (lines 66-74)
buildScripts ==
  <<"build-docs.sh", "generate-docs.sh", "build.sh", "npm run build-docs",
    "npm run generate-docs", "python generate_docs.py", "./generate.sh">>

\* IsCommandStyle without the test for 'python'
IsCommandStyle_Mut(script) ==
  script \in {"npm run build-docs", "npm run generate-docs"}

\* script.includes('npm run') || script.includes('python')  (line 78)
IsCommandStyle(script) ==
  script \in {"npm run build-docs", "npm run generate-docs",
              "python generate_docs.py"}

\* The path a script candidate names
ScriptPath(script) ==
  IF script = "./generate.sh" THEN <<".", "generate.sh">> ELSE <<script>>

\* One iteration of the loop over buildScripts (lines 77-93).  A build
\* that succeeds writes some of BuildOutputPaths into the working tree.
\* The execSync of a script candidate is outside any inner try: its
\* failure reaches the catch clause of the flow.
Build(i) ==
  /\ proc[i].pc = "build"
  /\ LET p == proc[i]
         script == buildScripts[p.buildIdx]
         next == IF p.buildIdx < Len(buildScripts)
                 THEN [p EXCEPT !.buildIdx = @ + 1]
                 ELSE [p EXCEPT !.pc = "locate", !.buildIdx = 0]
         ran(q) == [Did(q, "build") EXCEPT !.tried = Append(@, script)]
         built(q) == [ran(q) EXCEPT !.pc = "locate", !.buildIdx = 0,
                                    !.buildExecuted = TRUE]
         Succeeds ==
           \E out \in SUBSET BuildOutputPaths :
             /\ disk' = Populate(disk, p.tempDir, TreeOf(out, p.commitSha))
             /\ proc' = [proc EXCEPT ![i] = built(p)]
     IN IF IsCommandStyle(script)
        THEN \/ Succeeds
             \/ /\ disk' = disk
                /\ proc' = [proc EXCEPT ![i] = ran(next)]
        ELSE IF ExistsSync(disk, p.cwd, ScriptPath(script))
             THEN \/ Succeeds
                  \/ /\ disk' = disk
                     /\ proc' = [proc EXCEPT ![i] = Fail(ran(p), TRUE)]
             ELSE /\ disk' = disk
                  /\ proc' = [proc EXCEPT ![i] = next]
  /\ UNCHANGED <<remote, clock>>

\* Step 3 (line 100)
htmlDirs ==
  <<<<"dist">>, <<"output">>, <<"docs", "html">>, <<"build">>, <<"html">>,
    <<".">>>>

RECURSIVE FirstMatch_Mut(_, _, _)
\* FirstMatch without the break: a later candidate that holds .html files
\* replaces the files of an earlier one.
FirstMatch_Mut(dk, cwd, dirs) ==
  IF dirs = <<>> THEN <<>>
  ELSE LET dir == Head(dirs)
           files == IF ExistsSync(dk, cwd, dir)
                    THEN findHtmlFiles(dk, cwd, dir) ELSE <<>>
           later == FirstMatch_Mut(dk, cwd, Tail(dirs))
       IN IF Len(later) > 0 THEN later ELSE files

RECURSIVE FirstMatch(_, _, _)
\* The loop over htmlDirs (lines 103-112): the files of the first
\* candidate that exists and holds an .html file.
FirstMatch(dk, cwd, dirs) ==
  IF dirs = <<>> THEN <<>>
  ELSE LET dir == Head(dirs)
           files == IF ExistsSync(dk, cwd, dir)
                    THEN findHtmlFiles(dk, cwd, dir) ELSE <<>>
       IN IF Len(files) > 0 THEN files ELSE FirstMatch(dk, cwd, Tail(dirs))

\* NoArtifacts without the test: an empty list is published
NoArtifacts_Mut(files) == FALSE

\* if (htmlFiles.length === 0)  (line 114)
NoArtifacts(files) == Len(files) = 0

\* Step 3: find generated HTML files (lines 99-117)
Locate(i) ==
  /\ proc[i].pc = "locate"
  /\ LET p == [proc[i] EXCEPT !.located = TRUE]
         files == FirstMatch(disk, p.cwd, htmlDirs)
     IN proc' = [proc EXCEPT ![i] =
          IF NoArtifacts(files) THEN Exit([p EXCEPT !.htmlFiles = files], 1)
          ELSE [p EXCEPT !.pc = "gen_pclone", !.htmlFiles = files]]
  /\ UNCHANGED <<disk, remote, clock>>

\* git clone of the preview repository into dir, then process.chdir(dir)
\* (lines 119-123, 178-182)
ClonePreview(i, p, dir, nextPc) ==
  LET q == Did(p, "clone_preview")
  IN \E ok \in BOOLEAN :
       IF ok /\ CanCloneInto(disk, dir)
       THEN /\ disk' = CloneInto(disk, dir, remote.tree)
            /\ proc' = [proc EXCEPT ![i] =
                 [q EXCEPT !.pc = nextPc, !.cwd = dir,
                           !.haveClone = TRUE, !.cloned = remote.tree,
                           !.base = remote.commits, !.head = remote.tree,
                           !.index = remote.tree]]
       ELSE /\ disk' = disk
            /\ proc' = [proc EXCEPT ![i] = Fail(q, TRUE)]

\* Step 4: clone preview repository
GenPreviewClone(i) ==
  /\ proc[i].pc = "gen_pclone"
  /\ ClonePreview(i, proc[i], proc[i].previewDir, "gen_target")
  /\ UNCHANGED <<remote, clock>>

\* targetDir = path.join(previewDir, previewPath)  (lines 127, 185)
TargetDir(previewDir, previewPath) == Join(previewDir, previewPath)

\* Step 5, the target directory (lines 126-130); the copy loop that
\* follows has nothing to do for an empty list.
GenTarget(i) ==
  /\ proc[i].pc = "gen_target"
  /\ LET p == proc[i]
         targetDir == TargetDir(p.previewDir, p.previewPath)
         made == ~ExistsSync(disk, p.cwd, targetDir)
         q == IF made THEN Did(p, "mkdir") ELSE p
     IN /\ disk' = IF made THEN MkdirRecursive(disk, p.cwd, targetDir)
                   ELSE disk
        /\ proc' = [proc EXCEPT ![i] =
             [q EXCEPT !.copyIdx = 1,
                       !.pc = IF Len(p.htmlFiles) = 0 THEN "gen_add"
                              ELSE "gen_copy"]]
  /\ UNCHANGED <<remote, clock>>

\* relativePath = path.relative(tempDir, file)  (line 134)
RelativePath(cwd, tempDir, file) == Relative(cwd, tempDir, file)

\* targetFile = path.join(targetDir, relativePath)  (line 135)
TargetFile(targetDir, relativePath) == Join(targetDir, relativePath)

\* One iteration of the copy loop (lines 133-144).  `file` was collected
\* relative to the source working tree; path.relative and copyFileSync
\* resolve it against the current directory, which line 123 changed.
\* copied records each copy made: the artifact, where it was read, where
\* it was written.
GenCopy(i) ==
  /\ proc[i].pc = "gen_copy"
  /\ LET p == proc[i]
         file == p.htmlFiles[p.copyIdx]
         targetDir == TargetDir(p.previewDir, p.previewPath)
         relativePath == RelativePath(p.cwd, p.tempDir, file)
         targetFile == TargetFile(targetDir, relativePath)
         targetFileDir == Dirname(targetFile)
         dk == IF ~ExistsSync(disk, p.cwd, targetFileDir)
               THEN MkdirRecursive(disk, p.cwd, targetFileDir) ELSE disk
         q == Did(p, "copy")
     IN IF CanCopy(dk, p.cwd, file, targetFile)
        THEN /\ disk' = CopyFileSync(dk, p.cwd, file, targetFile)
             /\ proc' = [proc EXCEPT ![i] =
                  [q EXCEPT !.copied = @ \cup
                                {[file |-> file, from |-> Resolve(p.cwd, file),
                                  to |-> targetFile]},
                            !.copyIdx = @ + 1,
                            !.pc = IF p.copyIdx < Len(p.htmlFiles)
                                   THEN "gen_copy" ELSE "gen_add"]]
        ELSE /\ disk' = dk
             /\ proc' = [proc EXCEPT ![i] = Fail(q, FALSE)]
  /\ UNCHANGED <<remote, clock>>

\* The working tree of the clone in directory dir
WorkTree(dk, dir) == TreeAt(dk, dir)

\* Step 6: git config, git add <previewPath> (lines 147-150)
GenAdd(i) ==
  /\ proc[i].pc = "gen_add"
  /\ LET p == proc[i]
     IN proc' = [proc EXCEPT ![i] =
          [Did(p, "add") EXCEPT
             !.pc = "gen_commit",
             !.index = GitAdd(p.index, WorkTree(disk, p.previewDir),
                              p.previewPath)]]
  /\ UNCHANGED <<disk, remote, clock>>

\* The command lines of the two commits (lines 153, 197)
UpdateCommand(p) ==
  "git commit -m Update preview for " \o p.repoName \o "#"
     \o ToString(p.prNumber) \o " (" \o p.commitSha \o ")"

RemoveCommand(p) ==
  "git commit -m Remove preview for " \o p.repoName \o "#"
     \o ToString(p.prNumber)

PushCommand == "git push origin main"

\* The command of the commit of the flow the invocation is in
CommitCommand(p) ==
  IF p.flow = "generation" THEN UpdateCommand(p) ELSE RemoveCommand(p)

\* The position `step` ("push", "cleanup") in the flow the invocation is in
FlowPc(p, step) ==
  IF p.flow = "generation" THEN "gen_" \o step ELSE "cl_" \o step

\* The catch clause of the commit-and-push try block (lines 155-162,
\* 199-206): the error of the failed command is benign, or thrown again to
\* the catch clause of the flow.
CatchCommitError(p, cmd, stderr, external) ==
  IF IsBenignCommitError(cmd, stderr)
  THEN [p EXCEPT !.pc = FlowPc(p, "cleanup")]
  ELSE Fail(p, external)

\* git commit inside the try (lines 152-153, 196-197).  The command fails
\* when there is nothing to commit, and it can fail for a reason of the
\* environment (a hook, a full disk) that git reports on stderr.
Commit(i) ==
  /\ proc[i].pc \in {"gen_commit", "cl_commit"}
  /\ LET p == Did(proc[i], "commit")
     IN IF NothingToCommit(p.index, p.head)
        THEN proc' = [proc EXCEPT ![i] =
               CatchCommitError([p EXCEPT !.gitError = "nothing to commit"],
                                CommitCommand(p), "", FALSE)]
        ELSE \E ok \in BOOLEAN :
               proc' = [proc EXCEPT ![i] =
                 IF ok
                 THEN [p EXCEPT !.pc = FlowPc(p, "push"), !.head = p.index,
                                !.commits = @ + 1]
                 ELSE CatchCommitError([p EXCEPT !.gitError = "commit"],
                                       CommitCommand(p),
                                       "fatal: cannot commit", TRUE)]
  /\ UNCHANGED <<disk, remote, clock>>

\* git push origin main inside the same try (lines 154, 198): rejected
\* when it is no fast-forward, and it can fail for reasons of the network.
\* Its error goes through the same catch clause.
Push(i) ==
  /\ proc[i].pc \in {"gen_push", "cl_push"}
  /\ LET p == [Did(proc[i], "push") EXCEPT !.pushes = @ + 1]
     IN \E ok \in BOOLEAN :
          IF ok /\ IsFastForward(remote, p.base)
          THEN /\ remote' = [tree |-> p.head, commits |-> remote.commits + 1]
               /\ proc' = [proc EXCEPT ![i] =
                    [p EXCEPT !.pc = FlowPc(p, "cleanup")]]
          ELSE /\ remote' = remote
               /\ proc' = [proc EXCEPT ![i] =
                    CatchCommitError([p EXCEPT !.gitError = "push"],
                                     PushCommand, "! [rejected]", TRUE)]
  /\ UNCHANGED <<disk, clock>>

\* The scratch directories the final rm -rf of the flow names
\* (lines 166, 213)
ScratchDirs(p) ==
  IF p.flow = "generation" THEN {p.tempDir, p.previewDir} ELSE {p.previewDir}

RECURSIVE RmRfAll(_, _)
RmRfAll(dk, ds) ==
  IF ds = {} THEN dk
  ELSE LET d == CHOOSE x \in ds : TRUE IN RmRfAll(RmRf(dk, d), ds \ {d})

\* Cleanup: process.chdir('/'); rm -rf of the scratch directories (lines
\* 164-166, 211-213); the script then ends, with exit code 0.
Cleanup(i) ==
  /\ proc[i].pc \in {"gen_cleanup", "cl_cleanup"}
  /\ LET p == proc[i]
     IN /\ disk' = RmRfAll(disk, ScratchDirs(p))
        /\ proc' = [proc EXCEPT ![i] =
             Exit([Did(p, "rm_scratch") EXCEPT !.cwd = Root], 0)]
  /\ UNCHANGED <<remote, clock>>

-----------------------------------------------------------------------------
(* handleCleanup (lines 174-219) *)

\* Step 1: the scratch name and the clone (lines 176-182)
ClClone(i) ==
  /\ proc[i].pc = "cl_clone"
  /\ \E t \in clock..MaxClock :
       LET previewDir == ScratchDir("preview-repo-cleanup-", t)
       IN /\ clock' = t
          /\ ClonePreview(i, [proc[i] EXCEPT !.previewDir = previewDir],
                          previewDir, "cl_delete")
  /\ UNCHANGED remote

\* PreviewExists without the test: the folder is always deleted
PreviewExists_Mut(dk, cwd, targetPath) == TRUE

\* if (fs.existsSync(targetPath))  (line 186)
PreviewExists(dk, cwd, targetPath) == ExistsSync(dk, cwd, targetPath)

\* Step 2: delete the PR folder when it exists (lines 184-188, 207-209)
ClDelete(i) ==
  /\ proc[i].pc = "cl_delete"
  /\ LET p == proc[i]
         targetPath == TargetDir(p.previewDir, p.previewPath)
     IN IF PreviewExists(disk, p.cwd, targetPath)
        THEN /\ disk' = RmRf(disk, targetPath)
             /\ proc' = [proc EXCEPT ![i] =
                  [Did(p, "delete") EXCEPT !.pc = "cl_add"]]
        ELSE /\ disk' = disk
             /\ proc' = [proc EXCEPT ![i] = [p EXCEPT !.pc = "cl_cleanup"]]
  /\ UNCHANGED <<remote, clock>>

\* Step 3: git config, git add -A (lines 190-194)
ClAdd(i) ==
  /\ proc[i].pc = "cl_add"
  /\ LET p == proc[i]
     IN proc' = [proc EXCEPT ![i] =
          [Did(p, "add") EXCEPT
             !.pc = "cl_commit",
             !.index = GitAddAll(p.index, WorkTree(disk, p.previewDir))]]
  /\ UNCHANGED <<disk, remote, clock>>

-----------------------------------------------------------------------------
(* The specification: one invocation handles one event *)

FirstInvocation == 1

Next ==
  \E i \in {FirstInvocation} :
    \/ Start(i)
    \/ Validate(i)
    \/ Extract(i)
    \/ Filter(i)
    \/ Route(i)
    \/ GenClone(i)
    \/ GenCheckout(i)
    \/ Build(i)
    \/ Locate(i)
    \/ GenPreviewClone(i)
    \/ GenTarget(i)
    \/ GenCopy(i)
    \/ GenAdd(i)
    \/ ClClone(i)
    \/ ClDelete(i)
    \/ ClAdd(i)
    \/ Commit(i)
    \/ Push(i)
    \/ Cleanup(i)

Spec == Init /\ [][Next]_vars

-----------------------------------------------------------------------------
(* The specification of concurrent runs: every invocation handles one
   event that closes a pull request of a monitored repository.  The runs
   are separate processes that share /tmp, the clock and the preview
   repository, and their steps interleave. *)

\* The 'closed' events of the monitored repositories, with every field
ClosedEvents ==
  {ev \in Events :
     /\ ev.action = "closed"
     /\ ev.repository.present /\ ev.repository.hasOwner
     /\ ev.pull_request.present /\ ev.pull_request.hasHead
     /\ IsMonitored(ev.repository.name)}

\* The preview of a second pull request.  The runs start with the site
\* index and the previews of both pull requests published.
OtherPreview == File(<<"docs-site", "7", "index.html">>, "def5678")

InitCleanups ==
  /\ proc = [i \in Procs |-> IdleProc]
  /\ disk = EmptyDisk
  /\ remote = [tree |-> PublishedFiles \cup {OtherPreview}, commits |-> 0]
  /\ clock = 0

\* Invocation i is started, whatever the other invocations are doing.
StartCleanup(i) ==
  /\ proc[i].pc = "idle"
  /\ \E ev \in ClosedEvents :
       proc' = [proc EXCEPT ![i] = [@ EXCEPT !.pc = "validate", !.event = ev]]
  /\ UNCHANGED <<disk, remote, clock>>

NextCleanups ==
  \E i \in Procs :
    \/ StartCleanup(i)
    \/ Validate(i)
    \/ Extract(i)
    \/ Filter(i)
    \/ Route(i)
    \/ ClClone(i)
    \/ ClDelete(i)
    \/ ClAdd(i)
    \/ Commit(i)
    \/ Push(i)
    \/ Cleanup(i)

SpecCleanups == InitCleanups /\ [][NextCleanups]_vars

-----------------------------------------------------------------------------
(* Vocabulary of the properties *)

\* The payload has the documented structure: action, repository with
\* name and owner, pull_request with number and head.
WellFormed(ev) ==
  /\ ev.action \in Actions
  /\ ev.repository.present /\ ev.repository.hasOwner
  /\ ev.pull_request.present /\ ev.pull_request.hasHead

\* One of action, repository, pull_request is absent from the payload.
LacksRequiredField(ev) ==
  ev.action = Undefined \/ ~ev.repository.present \/ ~ev.pull_request.present

BeforeRouting == {"idle", "validate", "extract", "filter", "route"}

GenerationPcs ==
  {"gen_clone", "gen_checkout", "build", "locate", "gen_pclone", "gen_target",
   "gen_copy", "gen_add", "gen_commit", "gen_push", "gen_cleanup"}

CleanupPcs ==
  {"cl_clone", "cl_delete", "cl_add", "cl_commit", "cl_push", "cl_cleanup"}

\* Effects only the generation flow has, and effects only the cleanup
\* flow has
GenerationOps == {"clone", "checkout", "build", "mkdir", "copy"}
CleanupOps == {"delete"}

Exited(p) == p.pc = "exited"

-----------------------------------------------------------------------------
(* C1 *)

\* C1: for every well-formed event from a monitored repository, once the
\* router has run: 'opened' and 'synchronize' run the generation flow and
\* nothing of the cleanup flow; 'closed' and 'merged' run the cleanup flow
\* and nothing of the generation flow; any other action runs neither flow,
\* performs no external effect and exits with code 0.
C1_ActionRouting ==
  \A i \in Procs :
    LET p == proc[i]
        a == p.event.action
    IN (/\ p.pc \notin BeforeRouting
        /\ WellFormed(p.event)
        /\ p.event.repository.name \in monitoredRepositories)
       => /\ a \in {"opened", "synchronize"} =>
               /\ p.flow = "generation"
               /\ p.pc \in GenerationPcs \cup {"exited"}
               /\ p.pc # "gen_clone" => "clone" \in p.ops
               /\ p.ops \cap CleanupOps = {}
          /\ a \in {"closed", "merged"} =>
               /\ p.flow = "cleanup"
               /\ p.pc \in CleanupPcs \cup {"exited"}
               /\ p.pc # "cl_clone" => "clone_preview" \in p.ops
               /\ p.ops \cap GenerationOps = {}
          /\ a \notin {"opened", "synchronize", "closed", "merged"} =>
               /\ p.flow = "none"
               /\ p.ops = {}
               /\ Exited(p) /\ p.exitCode = 0

\* A 'merged' event of a monitored repository has run the cleanup flow to
\* its end.
C1_Witness ==
  \E i \in Procs :
    /\ WellFormed(proc[i].event)
    /\ proc[i].event.action = "merged"
    /\ proc[i].event.repository.name \in monitoredRepositories
    /\ proc[i].flow = "cleanup"
    /\ Exited(proc[i])
    /\ "delete" \in proc[i].ops

-----------------------------------------------------------------------------
(* C2 *)

\* C2: an invocation whose event lacks action, repository or pull_request
\* never gets past validation, performs no external effect, and when it
\* has exited its exit code is 1.
C2_MalformedEventExits1 ==
  \A i \in Procs :
    LET p == proc[i]
    IN (p.pc # "idle" /\ LacksRequiredField(p.event))
       => /\ p.pc \in {"validate", "exited"}
          /\ p.ops = {}
          /\ p.flow = "none"
          /\ Exited(p) => p.exitCode = 1

\* An event that has action and repository but no pull_request has exited.
C2_Witness ==
  \E i \in Procs :
    /\ Exited(proc[i])
    /\ proc[i].event.action = "opened"
    /\ proc[i].event.repository.present
    /\ ~proc[i].event.pull_request.present
    /\ proc[i].exitCode = 1

-----------------------------------------------------------------------------
(* C3 *)

\* C3 as claimed: every event that passes intake (action, repository and
\* pull_request present) and whose repository is not monitored ends with
\* exit code 0 and without any external effect.
C3_UnmonitoredExits0 ==
  \A i \in Procs :
    LET p == proc[i]
    IN (/\ Exited(p)
        /\ ~LacksRequiredField(p.event) /\ p.event.action # ""
        /\ ~IsMonitored(p.event.repository.name))
       => p.exitCode = 0 /\ p.ops = {}

-----------------------------------------------------------------------------
(* C4 *)

\* Every located artifact is already published, with the same content,
\* at PreviewPath in the tree the invocation cloned.
AlreadyPublished(p) ==
  /\ p.haveClone
  /\ \A k \in 1..Len(p.htmlFiles) :
       File(p.previewPath \o p.htmlFiles[k], p.commitSha) \in p.cloned

\* C4 as claimed: a generation whose artifacts are already published, and
\* whose git commit therefore finds nothing to commit, makes no commit and
\* no push and ends with exit code 0.
C4_NothingToCommitExits0 ==
  \A i \in Procs :
    LET p == proc[i]
    IN (/\ Exited(p)
        /\ p.flow = "generation"
        /\ AlreadyPublished(p)
        /\ "commit" \in p.ops
        /\ NothingToCommit(p.index, p.head))
       => p.exitCode = 0 /\ p.commits = 0 /\ p.pushes = 0

-----------------------------------------------------------------------------
(* C5 *)

\* The preview repository, as cloned, has nothing at PreviewPath.
NeverPublished(p) ==
  /\ p.haveClone
  /\ \A f \in p.cloned : ~IsUnder(p.previewPath, f.path)

\* C5: a cleanup flow that cloned a preview repository without PreviewPath
\* goes from the existence test straight to the removal of its scratch
\* directory: it deletes nothing, stages, commits and pushes nothing, and
\* when it has exited its exit code is 0.
C5_CleanupOfAbsentPathIsNoOp ==
  \A i \in Procs :
    LET p == proc[i]
    IN (/\ p.flow = "cleanup"
        /\ NeverPublished(p)
        /\ p.pc # "cl_delete")
       => /\ p.pc \in {"cl_cleanup", "exited"}
          /\ p.ops \cap {"delete", "add", "commit", "push"} = {}
          /\ p.commits = 0 /\ p.pushes = 0
          /\ Exited(p) => p.exitCode = 0

\* A 'closed' event for PR 7, which has no preview, has exited.
C5_Witness ==
  \E i \in Procs :
    /\ proc[i].flow = "cleanup"
    /\ proc[i].prNumber = 7
    /\ NeverPublished(proc[i])
    /\ Exited(proc[i])
    /\ proc[i].exitCode = 0
    /\ "rm_scratch" \in proc[i].ops

-----------------------------------------------------------------------------
(* C6 *)

-----------------------------------------------------------------------------
(* C7 *)

\* C7 as claimed: each copy reads artifact p from the source working tree
\* and writes it to PreviewPath/p in the preview working tree, and once
\* the copy loop is over every artifact is in place there.
C7_ArtifactsMirroredUnderPreviewPath ==
  \A i \in Procs :
    LET p == proc[i]
        targetDir == TargetDir(p.previewDir, p.previewPath)
    IN (p.flow = "generation" /\ "copy" \in p.ops /\ "rm_scratch" \notin p.ops)
       => /\ \A c \in p.copied :
               /\ c.from = p.tempDir \o c.file
               /\ c.to = targetDir \o c.file
          /\ p.pc # "gen_copy" =>
               \A k \in 1..Len(p.htmlFiles) :
                 File(targetDir \o p.htmlFiles[k], p.commitSha) \in disk.files

-----------------------------------------------------------------------------
(* C8 *)

\* C8 as claimed: an 'opened' event for docs-site, PR 42, whose build
\* produced dist/index.html and whose external commands all succeeded,
\* ends with exit code 0 and with docs-site/42/index.html in the preview
\* repository through one new pushed commit.
C8_OpenedEventPublishes ==
  \A i \in Procs :
    LET p == proc[i]
    IN (/\ Exited(p)
        /\ WellFormed(p.event)
        /\ p.event.action = "opened"
        /\ p.event.repository.name = "docs-site"
        /\ p.event.pull_request.number = 42
        /\ p.buildExecuted
        /\ p.htmlFiles = <<<<"dist", "index.html">>>>
        /\ ~p.extFail)
       => /\ p.exitCode = 0
          /\ p.pushes = 1
          /\ remote.commits = p.base + 1
          /\ \E f \in remote.tree : f.path = <<"docs-site", "42", "index.html">>

-----------------------------------------------------------------------------
(* C9 *)

\* The .html files of the source working tree `root` that lie under
\* candidate directory `dir`, as paths relative to root.
HtmlUnder(dk, root, dir) ==
  {f.path : f \in {g \in TreeAt(dk, root) :
                     /\ IsUnder(Normalize(dir), g.path)
                     /\ Extension(g.path[Len(g.path)]) = ".html"}}

Range(seq) == {seq[k] : k \in 1..Len(seq)}

\* C9: when the artifact search has found files, they are exactly the
\* .html files under the first candidate of htmlDirs that holds any, each
\* listed once; no candidate before it holds one and none after it
\* contributes.
C9_FirstMatchWins ==
  \A i \in Procs :
    LET p == proc[i]
    IN p.pc = "gen_pclone" =>
         \E k \in 1..Len(htmlDirs) :
           /\ HtmlUnder(disk, p.tempDir, htmlDirs[k]) # {}
           /\ \A j \in 1..(k - 1) : HtmlUnder(disk, p.tempDir, htmlDirs[j]) = {}
           /\ Range(p.htmlFiles) = HtmlUnder(disk, p.tempDir, htmlDirs[k])
           /\ Len(p.htmlFiles) = Cardinality(Range(p.htmlFiles))

\* dist exists without any .html file, output holds two, and the last
\* candidate "." holds more (those two and index.html): the result is
\* output's two files.
C9_Witness ==
  \E i \in Procs :
    LET p == proc[i]
    IN /\ p.pc = "gen_pclone"
       /\ IsDirectory(disk, p.tempDir \o <<"dist">>)
       /\ HtmlUnder(disk, p.tempDir, <<"dist">>) = {}
       /\ Cardinality(HtmlUnder(disk, p.tempDir, <<".">>)) > 2
       /\ Range(p.htmlFiles) =
            {<<"output", "a.html">>, <<"output", "sub", "b.html">>}

-----------------------------------------------------------------------------
(* C10 *)

\* C10: when the artifact search has run and no candidate directory of
\* the source working tree holds an .html file, the invocation has exited
\* with code 1 and has not cloned, written, committed or pushed to the
\* preview repository.
C10_NoArtifactsExits1 ==
  \A i \in Procs :
    LET p == proc[i]
    IN (/\ p.located
        /\ \A k \in 1..Len(htmlDirs) : HtmlUnder(disk, p.tempDir, htmlDirs[k]) = {})
       => /\ Exited(p) /\ p.exitCode = 1
          /\ p.ops \cap {"clone_preview", "mkdir", "copy", "add", "commit", "push"} = {}
          /\ ~p.haveClone
          /\ p.commits = 0 /\ p.pushes = 0

\* A build ran, wrote no .html file (only dist/readme.txt), and the
\* invocation exited with code 1.
C10_Witness ==
  \E i \in Procs :
    LET p == proc[i]
    IN /\ p.located /\ p.buildExecuted
       /\ IsFile(disk, p.tempDir \o <<"dist", "readme.txt">>)
       /\ p.htmlFiles = <<>>
       /\ Exited(p) /\ p.exitCode = 1

-----------------------------------------------------------------------------
(* C11 *)

\* C11: build discovery never ends the flow by itself: whatever candidates
\* exist, and whichever of them fail, an invocation of the generation flow
\* that has executed a build candidate and has exited went on to the
\* artifact search before it exited.
C11_BuildNeverFailsTheFlow ==
  \A i \in Procs :
    LET p == proc[i]
    IN (p.flow = "generation" /\ p.tried # <<>> /\ Exited(p)) => p.located

-----------------------------------------------------------------------------
(* C12 *)

\* C12: once an invocation has exited, with whatever exit code, none of
\* the scratch directories it created is on the disk any more.
C12_NoScratchLeftAtExit ==
  \A i \in Procs :
    LET p == proc[i]
    IN Exited(p) =>
         /\ "clone" \in p.ops => ~IsDirectory(disk, p.tempDir)
         /\ "clone_preview" \in p.ops => ~IsDirectory(disk, p.previewDir)

-----------------------------------------------------------------------------
(* C13 *)

\* C13: an invocation whose commit failed for a reason other than
\* 'nothing to commit', or whose push was rejected, has exited with code 1.
\* An invocation pushes at most once, and only after its own commit
\* succeeded: a failed commit is followed by no push, a failed push by no
\* second push.
C13_CommitPushFailureExits1 ==
  \A i \in Procs :
    LET p == proc[i]
    IN /\ p.gitError \in {"commit", "push"} => Exited(p) /\ p.exitCode = 1
       /\ p.pushes <= 1
       /\ "push" \in p.ops => p.pushes = 1 /\ p.commits = 1
       /\ p.pc \in {"gen_push", "cl_push"} => p.commits = 1 /\ p.pushes = 0
       /\ p.gitError \in {"commit", "nothing to commit"} =>
            p.pushes = 0 /\ p.commits = 0 /\ "push" \notin p.ops
       /\ p.gitError = "push" => p.pushes = 1

\* A cleanup invocation committed the removal, its one push was rejected,
\* and it exited with code 1.
C13_Witness ==
  \E i \in Procs :
    LET p == proc[i]
    IN /\ p.gitError = "push" /\ p.commits = 1 /\ p.pushes = 1
       /\ Exited(p) /\ p.exitCode = 1
       /\ remote.commits = 0

-----------------------------------------------------------------------------
(* C14 *)

\* The scratch directory names an invocation has chosen so far
ScratchNames(p) == {p.tempDir, p.previewDir} \ {NoPath}

\* C14: two distinct invocations never choose the same scratch directory
\* name.
C14_DistinctScratchNames ==
  \A i, j \in Procs :
    i # j => ScratchNames(proc[i]) \cap ScratchNames(proc[j]) = {}

-----------------------------------------------------------------------------
(* C15 *)

\* The candidates that are command lines; the others name a file of the
\* working tree.
CommandCandidates ==
  {"npm run build-docs", "npm run generate-docs", "python generate_docs.py"}

\* The file of the source working tree a script-path candidate names
ScriptFile(p, script) ==
  p.tempDir \o <<IF script = "./generate.sh" THEN "generate.sh" ELSE script>>

\* One step of invocation i, from p to q, follows the rules of build
\* discovery.
BuildStepOK(p, q, dk) ==
  IF p.pc = "build"
  THEN LET script == buildScripts[p.buildIdx]
           executed == q.tried # p.tried
       IN /\ executed => q.tried = Append(p.tried, script)
          /\ script \in CommandCandidates => executed
          /\ script \notin CommandCandidates =>
               (executed <=> IsFile(dk, ScriptFile(p, script)))
          /\ q.buildExecuted => executed /\ q.pc = "locate"
          /\ (script \in CommandCandidates /\ ~q.buildExecuted) =>
               q.pc # "exited"
          /\ q.pc = "build" => q.buildIdx = p.buildIdx + 1
          /\ (q.pc = "locate" /\ ~q.buildExecuted) =>
               p.buildIdx = Len(buildScripts)
  ELSE /\ q.tried = p.tried
       /\ q.buildExecuted = p.buildExecuted
       /\ q.pc = "build" =>
            p.pc = "gen_checkout" /\ q.buildIdx = 1 /\ q.tried = <<>>

\* C15: the build candidates are tried in the order of the list, from the
\* first; a script-path candidate is executed exactly when its file exists
\* in the working tree; a command-style candidate is always executed, and
\* its failure moves on to the next candidate; the first success ends the
\* loop, and nothing is executed after it.
C15_BuildCandidatesInOrder ==
  [][\A i \in Procs :
       proc'[i] # proc[i] => BuildStepOK(proc[i], proc'[i], disk)]_vars

\* build-docs.sh is absent and was skipped, npm run build-docs failed,
\* npm run generate-docs succeeded, and ./generate.sh, which exists, was
\* never executed.
C15_Witness ==
  \E i \in Procs :
    LET p == proc[i]
    IN /\ p.tried = <<"npm run build-docs", "npm run generate-docs">>
       /\ p.buildExecuted /\ p.located
       /\ IsFile(disk, p.tempDir \o <<"generate.sh">>)
       /\ ~IsFile(disk, p.tempDir \o <<"build-docs.sh">>)

-----------------------------------------------------------------------------
(* C16 *)

\* The stages in the order the script runs them, each followed by the
\* stages that may come directly after it.
StageOrder ==
  {<<"idle", "validate">>, <<"validate", "extract">>, <<"extract", "filter">>,
   <<"filter", "route">>,
   <<"route", "gen_clone">>, <<"gen_clone", "gen_checkout">>,
   <<"gen_checkout", "build">>, <<"build", "locate">>,
   <<"locate", "gen_pclone">>, <<"gen_pclone", "gen_target">>,
   <<"gen_target", "gen_copy">>, <<"gen_copy", "gen_add">>,
   <<"gen_add", "gen_commit">>, <<"gen_commit", "gen_push">>,
   <<"gen_commit", "gen_cleanup">>, <<"gen_push", "gen_cleanup">>,
   <<"route", "cl_clone">>, <<"cl_clone", "cl_delete">>,
   <<"cl_delete", "cl_add">>, <<"cl_delete", "cl_cleanup">>,
   <<"cl_add", "cl_commit">>, <<"cl_commit", "cl_push">>,
   <<"cl_commit", "cl_cleanup">>, <<"cl_push", "cl_cleanup">>}

\* The external effects that belong to each stage
StageEffects(pc) ==
  CASE pc = "gen_clone" -> {"clone"}
    [] pc = "gen_checkout" -> {"checkout"}
    [] pc = "build" -> {"build"}
    [] pc \in {"gen_pclone", "cl_clone"} -> {"clone_preview"}
    [] pc = "gen_target" -> {"mkdir"}
    [] pc = "gen_copy" -> {"mkdir", "copy"}
    [] pc = "cl_delete" -> {"delete"}
    [] pc \in {"gen_add", "cl_add"} -> {"add"}
    [] pc \in {"gen_commit", "cl_commit"} -> {"commit"}
    [] pc \in {"gen_push", "cl_push"} -> {"push"}
    [] pc \in {"gen_cleanup", "cl_cleanup"} -> {"rm_scratch"}
    [] OTHER -> {}

\* One step of an invocation, from p to q, keeps the order of the stages.
StageStepOK(p, q) ==
  /\ q.pc # p.pc => q.pc = "exited" \/ <<p.pc, q.pc>> \in StageOrder
  /\ (q.ops \ p.ops) \subseteq StageEffects(p.pc)
  /\ (p.pc = "validate" /\ LacksRequiredField(p.event)) =>
       Exited(q) /\ q.exitCode = 1
  /\ (Exited(q) /\ ~Exited(p) /\ WellFormed(p.event)
         /\ p.event.repository.name \notin monitoredRepositories) =>
       p.pc = "filter" /\ q.exitCode = 0

\* C16: every step of an invocation moves from a stage to the stage that
\* follows it in the fixed order, or exits: validation, then the
\* repository filter, then routing; in the generation flow source clone,
\* checkout, build discovery, artifact location, preview clone, copy,
\* stage, commit, push.  Each external effect happens in its own stage.
\* An event that lacks a required field exits 1 at validation, whatever
\* its repository; a well-formed event of an unmonitored repository exits
\* 0 at the filter, whatever its action.
C16_StagesInFixedOrder ==
  [][\A i \in Procs :
       proc'[i] # proc[i] => StageStepOK(proc[i], proc'[i])]_vars

\* A generation invocation went through every stage up to the commit.
C16_Witness ==
  \E i \in Procs :
    LET p == proc[i]
    IN /\ p.flow = "generation"
       /\ {"clone", "checkout", "build", "clone_preview", "mkdir", "copy",
           "add", "commit"} \subseteq p.ops
       /\ p.located

-----------------------------------------------------------------------------
(* C17 *)

\* The push of invocation p was accepted by the remote.
PushAccepted(p) == "push" \in p.ops /\ p.gitError = "none"

\* C17: when two invocations with the same PreviewPath cloned the preview
\* repository at the same commit of main (both cloned before either
\* pushed), and the push of one was accepted, then the other, once it has
\* pushed, was rejected: it pushed once, exited with code 1, and main
\* still holds the commit of the first, which removed the preview.
C17_SecondPushRejected ==
  \A i, j \in Procs :
    LET p == proc[i]
        q == proc[j]
    IN (/\ i # j
        /\ p.haveClone /\ q.haveClone
        /\ p.previewPath = q.previewPath
        /\ p.base = q.base
        /\ PushAccepted(p)
        /\ "push" \in q.ops)
       => /\ q.gitError = "push" /\ q.pushes = 1
          /\ Exited(q) /\ q.exitCode = 1
          /\ remote.commits > p.base
          /\ \A f \in remote.tree : ~IsUnder(p.previewPath, f.path)

\* Two cleanups of pull request 42 both cloned main at its first commit;
\* one pushed the removal, the other was rejected and exited with code 1.
C17_Witness ==
  \E i, j \in Procs :
    LET p == proc[i]
        q == proc[j]
    IN /\ i # j
       /\ p.previewPath = <<"docs-site", "42">> /\ q.previewPath = p.previewPath
       /\ p.haveClone /\ q.haveClone /\ p.base = 0 /\ q.base = 0
       /\ PushAccepted(p) /\ Exited(p) /\ p.exitCode = 0
       /\ q.commits = 1 /\ q.gitError = "push"
       /\ Exited(q) /\ q.exitCode = 1
       /\ remote.commits = 1
       /\ OtherPreview \in remote.tree

-----------------------------------------------------------------------------
(* C18 *)

\* The files in which two trees differ
Changed(a, b) == (a \ b) \cup (b \ a)

\* C18: whatever an invocation stages, commits and pushes differs from
\* the tree it cloned only in paths under its own PreviewPath; so does
\* main of the preview repository after the invocation: the site and the
\* previews of other pull requests stay as they were.
C18_OnlyOwnPreviewPathChanges ==
  \A i \in Procs :
    LET p == proc[i]
    IN p.haveClone =>
         \A f \in Changed(p.index, p.cloned) \cup Changed(p.head, p.cloned)
                  \cup Changed(remote.tree, p.cloned) :
           IsUnder(p.previewPath, f.path)

\* The cleanup for pull request 42 pushed a commit that removed
\* docs-site/42; the site index is still published.
C18_Witness ==
  \E i \in Procs :
    LET p == proc[i]
    IN /\ p.flow = "cleanup" /\ p.previewPath = <<"docs-site", "42">>
       /\ p.cloned = PublishedFiles
       /\ p.commits = 1 /\ p.pushes = 1 /\ remote.commits = 1
       /\ remote.tree = {File(<<"index.html">>, "site")}

-----------------------------------------------------------------------------
(* C19 *)

\* C19: validation is the only rejection before routing: an invocation
\* whose event carries action, repository and pull_request and that has
\* exited without entering a flow went through the filter or the router
\* and exited with code 0.
C19_OnlyValidationRejects ==
  \A i \in Procs :
    LET p == proc[i]
    IN (/\ Exited(p)
        /\ p.flow = "none"
        /\ ~LacksRequiredField(p.event)
        /\ p.event.action # "")
       => p.exitCode = 0

-----------------------------------------------------------------------------
(* C20 *)

\* The invocation was skipped on purpose: its repository is not
\* monitored, its action is not handled, its cleanup found nothing
\* published, or its commit found nothing to commit.
IntentionallySkipped(p) ==
  \/ /\ WellFormed(p.event)
     /\ p.event.repository.name \notin monitoredRepositories
  \/ /\ WellFormed(p.event)
     /\ p.event.action \notin {"opened", "synchronize", "closed", "merged"}
  \/ p.flow = "cleanup" /\ NeverPublished(p)
  \/ p.gitError = "nothing to commit"

\* C20: an invocation that has exited has exit code 0 exactly when its
\* push was accepted or it was skipped on purpose, and exit code 1
\* otherwise.
C20_ExitCodeReflectsOutcome ==
  \A i \in Procs :
    LET p == proc[i]
    IN Exited(p) =>
         /\ p.exitCode \in {0, 1}
         /\ p.exitCode = 0 <=> (PushAccepted(p) \/ IntentionallySkipped(p))

====
